---- MODULE Spec2Model ----
(***************************************************************************)
(* Model of rcd_recidivism_simulator_3d.py: a Streamlit script that reads  *)
(* 14 sliders, derives the five RCD variables, and colours a bar chart.    *)
(* Streamlit runs the script once at start and once more, top to bottom,   *)
(* each time a slider value changes.                                       *)
(*                                                                         *)
(* Numbers.  The script divides with Python's true division "/" by 3, 4    *)
(* and 5 only, so every derived value is a rational whose denominator      *)
(* divides 60.  A derived value q is held as the integer q * Scale, which  *)
(* is exact; thresholds are scaled the same way when they are compared.    *)
(*                                                                         *)
(* Text.  A Python string is held as the sequence of its characters, a     *)
(* character being named in ASCII: "gamma" for U+03B3, "delta" for U+03B4, *)
(* "Theta" for U+0398, "mu" for U+03BC, "nabla" for U+2207.                *)
(***************************************************************************)
EXTENDS Integers, Sequences, FiniteSets

VARIABLES
    slider,      \* the 14 slider values, lines 27-41
    gamma,       \* line 49, times Scale
    delta,       \* line 50, times Scale
    theta,       \* line 51, times Scale
    mu,          \* line 52, times Scale
    entropy,     \* line 53, times Scale
    rcd_colors,  \* line 126
    changes,     \* how many slider changes have been made (bounds the model)
    cpc,         \* position of a single get_color call: "idle", "call", "done"
    cvalue,      \* the call's argument value, times Scale
    cvar,        \* the call's argument var
    outcome      \* how the call ended: [kind |-> "return", color |-> c]

vars == <<slider, gamma, delta, theta, mu, entropy, rcd_colors, changes,
          cpc, cvalue, cvar, outcome>>

pipelineVars == <<slider, gamma, delta, theta, mu, entropy, rcd_colors, changes>>
callVars == <<cpc, cvalue, cvar, outcome>>

----------------------------------------------------------------------------
(* Bounds of the model *)

MaxChanges == 2

\* The slider positions the model moves a slider to: the ends of the range,
\* the default, and the four thresholds of get_color.
SliderVals == {0, 30, 40, 50, 60, 70, 100}

\* The uniform slider assignments the inputs are drawn around.
BaseVals == {0, 50, 100}

----------------------------------------------------------------------------
(* The sliders, lines 27-41 *)

SliderMin == 0
SliderMax == 100
SliderDefault == 50

SliderNames ==
    {"eid", "bxd", "thd", "intr", "somc", "cog", "impulsivity", "support",
     "pclr_aff", "pclr_antisocial", "pai_agg", "pai_bor", "mcmi_antisocial",
     "mcmi_borderline"}

Uniform(v) == [n \in SliderNames |-> v]

----------------------------------------------------------------------------
(* Arithmetic of lines 49-53 *)

Scale == 3 * 4 * 5

Max(a, b) == IF b > a THEN b ELSE a

\* Python's floor division n // d, as a scaled value.
DivFloor(n, d) == (n \div d) * Scale

\* Python's true division n / d of an integer n by d in {3, 4, 5}, as a
\* scaled value; exact because d divides Scale.
Div(n, d) == (n * Scale) \div d

\* line 49, inside max(0, .)
GammaRaw(s) ==
    100 * Scale - Div(s.eid + s.thd + s.cog, 3) - Div(s.mcmi_borderline, 4)

GammaNoFloor(s) == GammaRaw(s)

\* line 49
Gamma(s) == Max(0, GammaRaw(s))

DeltaDiv4(s) ==
    Div(s.bxd + s.impulsivity + s.pclr_antisocial + s.pai_bor
        + s.mcmi_antisocial, 4)

\* line 50
Delta(s) ==
    Div(s.bxd + s.impulsivity + s.pclr_antisocial + s.pai_bor
        + s.mcmi_antisocial, 5)

\* line 51, inside max(0, .)
ThetaRaw(s) == 100 * Scale - s.bxd * Scale

ThetaOfThd(s) == Max(0, 100 * Scale - s.thd * Scale)

\* line 51
Theta(s) == Max(0, ThetaRaw(s))

\* line 52, inside max(0, .)
MuRaw(s) ==
    100 * Scale - Div(s.intr + s.support + s.pclr_aff + s.mcmi_borderline, 4)

\* line 52
Mu(s) == Max(0, MuRaw(s))

\* line 53
Entropy(s) == Div(s.eid + s.somc + s.pai_agg, 3)

----------------------------------------------------------------------------
(* get_color, lines 101-122 *)

get_color_le40(value, var) ==
    IF var = <<"gamma">> THEN
        IF value <= 40 * Scale THEN "crimson"
        ELSE IF value < 70 * Scale THEN "gold"
        ELSE "limegreen"
    ELSE IF var = <<"delta">> THEN
        IF value > 60 * Scale THEN "crimson"
        ELSE IF value > 30 * Scale THEN "gold"
        ELSE "limegreen"
    ELSE IF var = <<"Theta">> THEN
        IF value < 40 * Scale THEN "crimson"
        ELSE IF value < 70 * Scale THEN "gold"
        ELSE "limegreen"
    ELSE IF var = <<"mu">> THEN
        IF value < 40 * Scale THEN "crimson"
        ELSE IF value < 70 * Scale THEN "gold"
        ELSE "limegreen"
    ELSE IF var = <<"nabla", "S">> THEN
        IF value > 60 * Scale THEN "crimson"
        ELSE IF value > 30 * Scale THEN "gold"
        ELSE "limegreen"
    ELSE "gray"

get_color_ge60(value, var) ==
    IF var = <<"gamma">> THEN
        IF value < 40 * Scale THEN "crimson"
        ELSE IF value < 70 * Scale THEN "gold"
        ELSE "limegreen"
    ELSE IF var = <<"delta">> THEN
        IF value > 60 * Scale THEN "crimson"
        ELSE IF value > 30 * Scale THEN "gold"
        ELSE "limegreen"
    ELSE IF var = <<"Theta">> THEN
        IF value < 40 * Scale THEN "crimson"
        ELSE IF value < 70 * Scale THEN "gold"
        ELSE "limegreen"
    ELSE IF var = <<"mu">> THEN
        IF value < 40 * Scale THEN "crimson"
        ELSE IF value < 70 * Scale THEN "gold"
        ELSE "limegreen"
    ELSE IF var = <<"nabla", "S">> THEN
        IF value >= 60 * Scale THEN "crimson"
        ELSE IF value > 30 * Scale THEN "gold"
        ELSE "limegreen"
    ELSE "gray"

get_color(value, var) ==
    IF var = <<"gamma">> THEN
        IF value < 40 * Scale THEN "crimson"
        ELSE IF value < 70 * Scale THEN "gold"
        ELSE "limegreen"
    ELSE IF var = <<"delta">> THEN
        IF value > 60 * Scale THEN "crimson"
        ELSE IF value > 30 * Scale THEN "gold"
        ELSE "limegreen"
    ELSE IF var = <<"Theta">> THEN
        IF value < 40 * Scale THEN "crimson"
        ELSE IF value < 70 * Scale THEN "gold"
        ELSE "limegreen"
    ELSE IF var = <<"mu">> THEN
        IF value < 40 * Scale THEN "crimson"
        ELSE IF value < 70 * Scale THEN "gold"
        ELSE "limegreen"
    ELSE IF var = <<"nabla", "S">> THEN
        IF value > 60 * Scale THEN "crimson"
        ELSE IF value > 30 * Scale THEN "gold"
        ELSE "limegreen"
    ELSE "gray"

----------------------------------------------------------------------------
(* The bar chart's inputs, lines 124-126 *)

\* line 124
rcd_labels ==
    << <<"gamma", " ", "(", "P", "h", "a", "s", "e", " ",
         "S", "t", "a", "b", "i", "l", "i", "t", "y", ")">>,
       <<"delta", " ", "(", "S", "y", "m", "b", "o", "l", "i", "c", " ",
         "D", "r", "i", "f", "t", ")">>,
       <<"Theta", " ", "(", "K", "a", "r", "m", "i", "c", " ",
         "R", "e", "s", "i", "s", "t", "a", "n", "c", "e", ")">>,
       <<"mu", " ", "(", "R", "e", "c", "u", "r", "s", "i", "v", "e", " ",
         "C", "o", "h", "e", "r", "e", "n", "c", "e", ")">>,
       <<"nabla", "S", " ", "(", "E", "n", "t", "r", "o", "p", "y", " ",
         "G", "r", "a", "d", "i", "e", "n", "t", ")">> >>

\* Python's str[i] with i >= 0: the one-character string at 0-based index i.
StrIndex(str, i) == <<str[i + 1]>>

\* line 125
rcd_values(g, d, t, m, e) == <<g, d, t, m, e>>

\* line 126: [get_color(v, l[0]) for v, l in zip(rcd_values, rcd_labels)]
BarColors(values) ==
    [i \in 1..5 |-> get_color(values[i], StrIndex(rcd_labels[i], 0))]

----------------------------------------------------------------------------
(* One run of the script on the slider values s, lines 27-126 *)

Script(s) ==
    LET g == Gamma(s)
        d == Delta(s)
        t == Theta(s)
        m == Mu(s)
        e == Entropy(s)
    IN  [gamma |-> g, delta |-> d, theta |-> t, mu |-> m, entropy |-> e,
         rcd_colors |-> BarColors(rcd_values(g, d, t, m, e))]

\* The state the script's run on s leaves.
Evaluated(s, out) ==
    /\ slider = s
    /\ gamma = out.gamma
    /\ delta = out.delta
    /\ theta = out.theta
    /\ mu = out.mu
    /\ entropy = out.entropy
    /\ rcd_colors = out.rcd_colors

NoCall ==
    /\ cpc = "idle"
    /\ cvalue = 0
    /\ cvar = <<>>
    /\ outcome = [kind |-> "none", color |-> "none"]

\* The first run: every slider at its default, line 27-41's third argument.
Init ==
    /\ Evaluated(Uniform(SliderDefault), Script(Uniform(SliderDefault)))
    /\ changes = 0
    /\ NoCall

SliderReadsStale(n, v) == slider

\* Lines 27-41 in the run that follows the move of slider n to v: each
\* st.sidebar.slider call returns its widget's current value.
SliderReads(n, v) == [slider EXCEPT ![n] = v]

\* The user moves slider n to v; Streamlit reruns the whole script.
SetSlider(n, v) ==
    /\ cpc = "idle"
    /\ changes < MaxChanges
    /\ v # slider[n]
    /\ LET out == Script(SliderReads(n, v))
       IN  /\ slider' = [slider EXCEPT ![n] = v]
           /\ gamma' = out.gamma
           /\ delta' = out.delta
           /\ theta' = out.theta
           /\ mu' = out.mu
           /\ entropy' = out.entropy
           /\ rcd_colors' = out.rcd_colors
    /\ changes' = changes + 1
    /\ UNCHANGED callVars

Next == \E n \in SliderNames, v \in SliderVals : SetSlider(n, v)

Spec == Init /\ [][Next]_vars

----------------------------------------------------------------------------
(* The derivation on inputs drawn around every uniform assignment *)

InitInputs ==
    /\ \E b \in BaseVals : Evaluated(Uniform(b), Script(Uniform(b)))
    /\ changes = 0
    /\ NoCall

SpecInputs == InitInputs /\ [][Next]_vars

----------------------------------------------------------------------------
(* get_color as a function of its two arguments *)

\* The five names get_color tests for, lines 102-118.
Recognized ==
    {<<"gamma">>, <<"delta">>, <<"Theta">>, <<"mu">>, <<"nabla", "S">>}

\* The names a call is made with: the recognized ones, the first character
\* of the fifth label, and two strings that are no indicator.
CallVars == Recognized \cup {<<"nabla">>, <<"S">>, <<>>}

CallValues == 0 .. (SliderMax * Scale)

InitColor ==
    /\ Evaluated(Uniform(SliderDefault), Script(Uniform(SliderDefault)))
    /\ changes = 0
    /\ cpc = "call"
    /\ cvalue \in CallValues
    /\ cvar \in CallVars
    /\ outcome = [kind |-> "none", color |-> "none"]

\* get_color(cvalue, cvar) runs to its return statement; it has no raise.
Classify ==
    /\ cpc = "call"
    /\ outcome' = [kind |-> "return", color |-> get_color(cvalue, cvar)]
    /\ cpc' = "done"
    /\ UNCHANGED <<cvalue, cvar>>
    /\ UNCHANGED pipelineVars

NextColor == Classify

SpecColor == InitColor /\ [][NextColor]_vars

----------------------------------------------------------------------------
(* Properties *)

Colors == {"crimson", "gold", "limegreen"}

Full == SliderMax * Scale

\* C1: with every slider in [0,100], each of gamma, delta, theta, mu and
\* entropy lies in [0,100], after any sequence of slider changes.
C1_InRange ==
    /\ \A n \in SliderNames : slider[n] \in SliderMin..SliderMax
    /\ gamma \in 0..Full
    /\ delta \in 0..Full
    /\ theta \in 0..Full
    /\ mu \in 0..Full
    /\ entropy \in 0..Full

\* A slider has been moved, gamma sits on its floor and delta on its ceiling.
C1_Witness ==
    /\ changes > 0
    /\ gamma = 0
    /\ delta = Full
    /\ entropy < Full

\* C2: the derived values are the stated formulas under exact division
\* (each equation cleared of its denominator), and the three named input
\* assignments give the three named results.
C2_Formulas ==
    LET s == slider IN
    /\ 12 * gamma
         = Scale * Max(0, 1200 - 4 * (s.eid + s.thd + s.cog)
                             - 3 * s.mcmi_borderline)
    /\ 5 * delta
         = Scale * (s.bxd + s.impulsivity + s.pclr_antisocial + s.pai_bor
                    + s.mcmi_antisocial)
    /\ theta = Scale * Max(0, 100 - s.bxd)
    /\ 4 * mu
         = Scale * Max(0, 400 - (s.intr + s.support + s.pclr_aff
                                 + s.mcmi_borderline))
    /\ 3 * entropy = Scale * (s.eid + s.somc + s.pai_agg)
    /\ (s = Uniform(0)) =>
          <<gamma, delta, theta, mu, entropy>>
            = <<100 * Scale, 0, 100 * Scale, 100 * Scale, 0>>
    /\ (s = Uniform(100)) =>
          <<gamma, delta, theta, mu, entropy>>
            = <<0, 100 * Scale, 0, 0, 100 * Scale>>
    /\ (s = Uniform(50)) =>
          <<2 * gamma, delta, theta, mu, entropy>>
            = <<75 * Scale, 50 * Scale, 50 * Scale, 50 * Scale, 50 * Scale>>

\* After a slider change, gamma, mu and entropy are not whole numbers: the
\* divisions by 3 and by 4 left a fraction.
C2_Witness ==
    /\ changes > 0
    /\ gamma % Scale # 0
    /\ mu % Scale # 0
    /\ entropy % Scale # 0

\* C3: for gamma, Theta and mu, get_color returns crimson exactly below 40,
\* gold exactly on [40,70), limegreen exactly from 70 up.
C3_HigherIsBetter ==
    (cpc = "done" /\ cvar \in {<<"gamma">>, <<"Theta">>, <<"mu">>}) =>
        /\ outcome.kind = "return"
        /\ (outcome.color = "crimson") <=> (cvalue < 40 * Scale)
        /\ (outcome.color = "gold")
             <=> (40 * Scale <= cvalue /\ cvalue < 70 * Scale)
        /\ (outcome.color = "limegreen") <=> (cvalue >= 70 * Scale)

\* get_color(40, gamma) has returned gold.
C3_Witness ==
    /\ cpc = "done"
    /\ cvar = <<"gamma">>
    /\ cvalue = 40 * Scale
    /\ outcome.color = "gold"

\* C4: for delta and nabla-S, get_color returns crimson exactly above 60,
\* gold exactly on (30,60], limegreen exactly up to 30.
C4_LowerIsBetter ==
    (cpc = "done" /\ cvar \in {<<"delta">>, <<"nabla", "S">>}) =>
        /\ outcome.kind = "return"
        /\ (outcome.color = "crimson") <=> (cvalue > 60 * Scale)
        /\ (outcome.color = "gold")
             <=> (30 * Scale < cvalue /\ cvalue <= 60 * Scale)
        /\ (outcome.color = "limegreen") <=> (cvalue <= 30 * Scale)

\* get_color(60, nabla-S) has returned gold.
C4_Witness ==
    /\ cpc = "done"
    /\ cvar = <<"nabla", "S">>
    /\ cvalue = 60 * Scale
    /\ outcome.color = "gold"

\* C5: every one of the five bars is coloured crimson, gold or limegreen,
\* never the gray of an unrecognized indicator.
C5_NoGrayBar == \A i \in 1..5 : rcd_colors[i] \in Colors

\* C6: a get_color call with a name outside the five recognized ones ends
\* in an error, not in a returned colour.
C6_UnknownRejected ==
    (cpc = "done" /\ cvar \notin Recognized) => outcome.kind = "error"

GammaInputs == {"eid", "thd", "cog", "mcmi_borderline"}
DeltaInputs ==
    {"bxd", "impulsivity", "pclr_antisocial", "pai_bor", "mcmi_antisocial"}
ThetaInputs == {"bxd"}
MuInputs == {"intr", "support", "pclr_aff", "mcmi_borderline"}
EntropyInputs == {"eid", "somc", "pai_agg"}

Rank(c) == CASE c = "crimson" -> 0 [] c = "gold" -> 1 [] c = "limegreen" -> 2

MoreFavorable(new, old) ==
    new \in Colors /\ old \in Colors /\ Rank(new) > Rank(old)

\* The indicator each bar stands for.
Identity == <<<<"gamma">>, <<"delta">>, <<"Theta">>, <<"mu">>, <<"nabla", "S">>>>

C9_Step ==
    \A n \in SliderNames :
        (/\ slider'[n] # slider[n]
         /\ \A m \in SliderNames \ {n} : slider'[m] = slider[m])
        =>
        /\ (n \notin GammaInputs) => gamma' = gamma
        /\ (n \notin DeltaInputs) => delta' = delta
        /\ (n \notin ThetaInputs) => theta' = theta
        /\ (n \notin MuInputs) => mu' = mu
        /\ (n \notin EntropyInputs) => entropy' = entropy
        /\ (slider'[n] > slider[n]) =>
              /\ gamma' <= gamma
              /\ theta' <= theta
              /\ mu' <= mu
              /\ delta' >= delta
              /\ entropy' >= entropy
              /\ \A i \in 1..5 :
                    /\ ~MoreFavorable(rcd_colors'[i], rcd_colors[i])
                    /\ ~MoreFavorable(
                          get_color(<<gamma', delta', theta', mu',
                                      entropy'>>[i], Identity[i]),
                          get_color(<<gamma, delta, theta, mu,
                                      entropy>>[i], Identity[i]))

\* C9: a change of one slider leaves every indicator whose formula does not
\* read it unchanged; a raise of one slider never raises gamma, theta or mu,
\* never lowers delta or entropy, and moves no bar to a more favorable class.
C9_FrameAndMonotone == [][C9_Step]_vars

\* bxd alone was raised, from 50 to 100: theta fell to 0 and its bar to
\* crimson, delta rose, and gamma, mu and entropy kept their values.
C9_Witness ==
    /\ changes = 1
    /\ slider.bxd = 100
    /\ theta = 0
    /\ rcd_colors[3] = "crimson"
    /\ delta = 60 * Scale
    /\ 2 * gamma = 75 * Scale
    /\ mu = 50 * Scale
    /\ entropy = 50 * Scale

\* C10: the floor never acts on theta or mu; it acts on gamma exactly when
\* 4*(eid+thd+cog) + 3*mcmi_borderline > 1200, and gamma is then 0; the
\* unfloored gamma is never below -25, its value with every slider at 100.
C10_FloorOnlyGamma ==
    LET s == slider
        over == 4 * (s.eid + s.thd + s.cog) + 3 * s.mcmi_borderline > 1200
    IN  /\ ThetaRaw(s) >= 0
        /\ theta = ThetaRaw(s)
        /\ MuRaw(s) >= 0
        /\ mu = MuRaw(s)
        /\ (GammaRaw(s) < 0) <=> over
        /\ (gamma # GammaRaw(s)) <=> over
        /\ over => gamma = 0
        /\ GammaRaw(s) >= -25 * Scale
        /\ (s = Uniform(100)) => GammaRaw(s) = -25 * Scale

\* A slider has been moved and the unfloored gamma is negative, strictly
\* above its minimum; gamma is 0.
C10_Witness ==
    /\ changes > 0
    /\ GammaRaw(slider) < 0
    /\ GammaRaw(slider) > -25 * Scale
    /\ gamma = 0

====
